---- MODULE Spec2Model ----
(***************************************************************************)
(* System Guardian (backend/services/system_guardian/guardian.py):         *)
(* ServiceManager (process supervisor), HealthMonitor (health checks,      *)
(* backoff, restart), background_monitor, start_all_services and           *)
(* stop_all_services, run against an operating system whose processes      *)
(* exit, bind their ports and are started out-of-band at any moment.       *)
(*                                                                         *)
(* The supervisor is one asyncio thread: a coroutine is split into steps   *)
(* at its awaits and at the blocking waits of stop_service, and the        *)
(* operating system acts between the steps.                                *)
(***************************************************************************)
EXTENDS Integers, Sequences, FiniteSets, TLC

\* ---------------------------------------------------------------- bounds
\* Number of descriptors of STARTUP_ORDER that the registry holds.
NumServices == 2
\* PIDs the operating system hands to spawned children: 1..MaxPid.
MaxPid == 2

\* ------------------------------------------------------ program constants
max_backoff == 300
base_backoff == 5

STARTUP_ORDER ==
    << [name |-> "character_extraction", port |-> 8001],
       [name |-> "document_processor",   port |-> 8002],
       [name |-> "query_engine",         port |-> 8003],
       [name |-> "metadata_service",     port |-> 8004],
       [name |-> "rag_service",          port |-> 8005] >>

Registry == SubSeq(STARTUP_ORDER, 1, NumServices)
Names == { Registry[k].name : k \in 1..NumServices }
Ports == { Registry[k].port : k \in 1..NumServices }
Port(n) == Registry[CHOOSE k \in 1..NumServices : Registry[k].name = n].port

\* ------------------------------------------------------------ the values
NoPid == 0          \* Python None for a PID
NoState == [pid |-> NoPid, started_by |-> "none", restart_count |-> -1]
NoCount == -1       \* the key 'restart_count' is absent from the dict
NoDelay == 0        \* the name is absent from backoff_delays
ChildPids == 1..MaxPid
\* PIDs the operating system hands to a process started out-of-band that
\* listens on port q.
ExtPids(q) == {q, q + 100}
AllExtPids == UNION { ExtPids(q) : q \in Ports }

VARIABLES
    child,          \* OS: child[p] = name of the service p was spawned for, or "free"
    listen,         \* OS: listen[q] = PID listening on port q, or NoPid
    services,       \* ServiceManager.services
    backoff_delays, \* HealthMonitor.backoff_delays
    health_status,  \* HealthMonitor.health_status[n]['healthy'], or "none"
    op,             \* the running top-level operation, or "idle"
    pc,             \* the position of the supervisor's thread
    cur,            \* the service name the thread works on
    i,              \* the loop index of start_all / stop_all / background_monitor
    last,           \* the most recent primitive call and its outcome
    prev,           \* the primitive call that returned before the running one
    cycle           \* bookkeeping of the running monitor cycle

vars == << child, listen, services, backoff_delays, health_status,
           op, pc, cur, i, last, prev, cycle >>

NoCall == [op |-> "none", name |-> "none", out |-> "none", ret |-> "none"]
\* prev: the start_service call, when the last start_service or stop_service
\* call to return was a start_service: its name, whether it returned True, and
\* whether the call before it was a start_service of the same name too.
NoPrev == [name |-> "none", ok |-> FALSE, twice |-> FALSE]
\* cycle: what the running monitor cycle found (dead: not running; unhealthy:
\* running with a failed health check) and did (restarted: restart_service
\* invoked; touched: services changed, a process spawned or signalled).
NoCycle == [dead |-> {}, killed |-> {}, unhealthy |-> {}, restarted |-> {},
            touched |-> FALSE, count0 |-> NoCount, tag0 |-> "none"]

\* ------------------------------------------------------ operating system
\* psutil.Process(pid) finds the process.
Exists(p) ==
    \/ p \in ChildPids /\ child[p] # "free"
    \/ p \in AllExtPids /\ \E q \in Ports : listen[q] = p

\* PIDs the OS may give to a child spawned for n: not in use, and not the PID
\* that the runtime state of another service still names.
FreePids(n) ==
    { p \in ChildPids : child[p] = "free"
                         /\ \A m \in Names \ {n} : services[m].pid # p }
NewPid(n) == CHOOSE p \in FreePids(n) : \A q \in FreePids(n) : p <= q
\* The PID of a new out-of-band listener on port q: one no runtime state names.
FreeExtPids(q) == { p \in ExtPids(q) : \A n \in Names : services[n].pid # p }
NewExtPid(q) == CHOOSE p \in FreeExtPids(q) : \A r \in FreeExtPids(q) : p <= r

ChildAfterExit(p) == [c \in ChildPids |-> IF c = p THEN "free" ELSE child[c]]
ListenAfterExit(p) == [q \in Ports |-> IF listen[q] = p THEN NoPid ELSE listen[q]]

\* ------------------------------------------------------- ServiceManager
is_port_in_use(q) == listen[q]

\* is_service_running that trusts the runtime state without asking the OS.
is_service_running_tracked(n) == services[n] # NoState

is_service_running(n) ==
    IF services[n] = NoState THEN FALSE
    ELSE IF services[n].pid = NoPid THEN FALSE
    ELSE Exists(services[n].pid)

\* start_service without the port check of its first step.
start_service_skips_port_check(n, target_exists, popen_ok) ==
    IF is_service_running(n)
    THEN [services |-> services, child |-> child, out |-> "already", ret |-> "True"]
    ELSE IF ~target_exists
    THEN [services |-> services, child |-> child, out |-> "missing", ret |-> "False"]
    ELSE IF ~popen_ok
    THEN [services |-> services, child |-> child, out |-> "spawn_failed",
          ret |-> "False"]
    ELSE [services |-> [services EXCEPT ![n] =
                          [pid |-> NewPid(n), started_by |-> "guardian",
                           restart_count |-> 0]],
          child |-> [child EXCEPT ![NewPid(n)] = n], out |-> "spawned",
          ret |-> "True"]

\* start_service without the already-running check of its second step.
start_service_skips_running_check(n, target_exists, popen_ok) ==
    IF listen[Port(n)] # NoPid
    THEN [services |-> [services EXCEPT ![n] =
                          [pid |-> listen[Port(n)], started_by |-> "external",
                           restart_count |-> NoCount]],
          child |-> child, out |-> "adopted", ret |-> "True"]
    ELSE IF ~target_exists
    THEN [services |-> services, child |-> child, out |-> "missing", ret |-> "False"]
    ELSE IF ~popen_ok
    THEN [services |-> services, child |-> child, out |-> "spawn_failed",
          ret |-> "False"]
    ELSE [services |-> [services EXCEPT ![n] =
                          [pid |-> NewPid(n), started_by |-> "guardian",
                           restart_count |-> 0]],
          child |-> [child EXCEPT ![NewPid(n)] = n], out |-> "spawned",
          ret |-> "True"]

\* start_service that forgets the runtime state when subprocess.Popen raises.
start_service_forgets_on_popen_error(n, target_exists, popen_ok) ==
    IF listen[Port(n)] # NoPid
    THEN [services |-> [services EXCEPT ![n] =
                          [pid |-> listen[Port(n)], started_by |-> "external",
                           restart_count |-> NoCount]],
          child |-> child, out |-> "adopted", ret |-> "True"]
    ELSE IF is_service_running(n)
    THEN [services |-> services, child |-> child, out |-> "already", ret |-> "True"]
    ELSE IF ~target_exists
    THEN [services |-> services, child |-> child, out |-> "missing",
          ret |-> "False"]
    ELSE IF ~popen_ok
    THEN [services |-> [services EXCEPT ![n] = NoState], child |-> child,
          out |-> "spawn_failed", ret |-> "False"]
    ELSE [services |-> [services EXCEPT ![n] =
                          [pid |-> NewPid(n), started_by |-> "guardian",
                           restart_count |-> 0]],
          child |-> [child EXCEPT ![NewPid(n)] = n], out |-> "spawned",
          ret |-> "True"]

\* start_service that drops the runtime state when the launch fails.
start_service_forgets_on_failure(n, target_exists, popen_ok) ==
    IF listen[Port(n)] # NoPid
    THEN [services |-> [services EXCEPT ![n] =
                          [pid |-> listen[Port(n)], started_by |-> "external",
                           restart_count |-> NoCount]],
          child |-> child, out |-> "adopted", ret |-> "True"]
    ELSE IF is_service_running(n)
    THEN [services |-> services, child |-> child, out |-> "already", ret |-> "True"]
    ELSE IF ~target_exists
    THEN [services |-> [services EXCEPT ![n] = NoState], child |-> child,
          out |-> "missing", ret |-> "False"]
    ELSE IF ~popen_ok
    THEN [services |-> [services EXCEPT ![n] = NoState], child |-> child,
          out |-> "spawn_failed", ret |-> "False"]
    ELSE [services |-> [services EXCEPT ![n] =
                          [pid |-> NewPid(n), started_by |-> "guardian",
                           restart_count |-> 0]],
          child |-> [child EXCEPT ![NewPid(n)] = n], out |-> "spawned",
          ret |-> "True"]

\* The body of start_service up to its await; target_exists is
\* service_path.exists(), popen_ok is subprocess.Popen not raising.
start_service(n, target_exists, popen_ok) ==
    LET existing_pid == is_port_in_use(Port(n)) IN
    IF existing_pid # NoPid
    THEN [services |-> [services EXCEPT ![n] =
                          [pid |-> existing_pid, started_by |-> "external",
                           restart_count |-> NoCount]],
          child |-> child, out |-> "adopted", ret |-> "True"]
    ELSE IF is_service_running(n)
    THEN [services |-> services, child |-> child, out |-> "already", ret |-> "True"]
    ELSE IF ~target_exists
    THEN [services |-> services, child |-> child, out |-> "missing", ret |-> "False"]
    ELSE IF ~popen_ok
    THEN [services |-> services, child |-> child, out |-> "spawn_failed",
          ret |-> "False"]
    ELSE [services |-> [services EXCEPT ![n] =
                          [pid |-> NewPid(n), started_by |-> "guardian",
                           restart_count |-> 0]],
          child |-> [child EXCEPT ![NewPid(n)] = n], out |-> "spawned",
          ret |-> "True"]

\* What the OS and the process may answer to stop_service's terminate/wait/kill.
StopWays(n) ==
    IF services[n] = NoState \/ ~Exists(services[n].pid) THEN {"graceful"}
    ELSE IF services[n].pid \in ChildPids THEN {"graceful", "forced", "timeout"}
    ELSE {"graceful", "forced", "timeout", "denied"}

\* stop_service that leaves a process it did not launch alone.
stop_service_spares_external(n, how) ==
    LET pid == services[n].pid
        kept(o, r) == [services |-> services, child |-> child, listen |-> listen,
                       out |-> o, ret |-> r]
    IN
    IF services[n] = NoState THEN kept("untracked", "False")
    ELSE IF pid = NoPid THEN kept("nopid", "False")
    ELSE IF services[n].started_by = "external" THEN kept("foreign", "False")
    ELSE IF ~Exists(pid) THEN kept("nosuch", "False")
    ELSE IF how = "denied" THEN kept("denied", "False")
    ELSE IF how = "timeout" THEN kept("timeout", "Raise")
    ELSE [services |-> [services EXCEPT ![n] = NoState],
          child |-> ChildAfterExit(pid),
          listen |-> ListenAfterExit(pid),
          out |-> how, ret |-> "True"]

\* stop_service that reports an untracked name as stopped.
stop_service_untracked_is_success(n, how) ==
    LET pid == services[n].pid
        kept(o, r) == [services |-> services, child |-> child, listen |-> listen,
                       out |-> o, ret |-> r]
    IN
    IF services[n] = NoState THEN kept("untracked", "True")
    ELSE IF ~Exists(pid) THEN kept("nosuch", "False")
    ELSE IF how = "denied" THEN kept("denied", "False")
    ELSE IF how = "timeout" THEN kept("timeout", "Raise")
    ELSE [services |-> [services EXCEPT ![n] = NoState],
          child |-> ChildAfterExit(pid),
          listen |-> ListenAfterExit(pid),
          out |-> how, ret |-> "True"]

\* ret is the value returned, or "Raise" for the psutil.TimeoutExpired of the
\* second wait, which no except clause of stop_service catches.
stop_service(n, how) ==
    LET pid == services[n].pid
        kept(o, r) == [services |-> services, child |-> child, listen |-> listen,
                       out |-> o, ret |-> r]
    IN
    IF services[n] = NoState THEN kept("untracked", "False")
    ELSE IF pid = NoPid THEN kept("nopid", "False")
    ELSE IF ~Exists(pid) THEN kept("nosuch", "False")
    ELSE IF how = "denied" THEN kept("denied", "False")
    ELSE IF how = "timeout" THEN kept("timeout", "Raise")
    ELSE [services |-> [services EXCEPT ![n] = NoState],
          child |-> ChildAfterExit(pid),
          listen |-> ListenAfterExit(pid),
          out |-> how, ret |-> "True"]

\* get_service_status(): one entry per tracked service.
get_service_status ==
    [n \in { m \in Names : services[m] # NoState } |->
        [running |-> is_service_running(n),
         pid |-> services[n].pid,
         port |-> Port(n),
         started_by |-> services[n].started_by,
         restart_count |-> IF services[n].restart_count = NoCount THEN 0
                           ELSE services[n].restart_count]]

\* ------------------------------------------------------- HealthMonitor
\* What the health endpoint may answer: nobody listening refuses the connection.
HealthResponses(n) ==
    IF listen[Port(n)] = NoPid THEN {"error"}
    ELSE {"healthy", "unhealthy", "non200", "error"}

\* check_health that looks at the HTTP status only.
check_health_status_only(n, resp) ==
    IF resp = "healthy" \/ resp = "unhealthy"
    THEN [backoff |-> [backoff_delays EXCEPT ![n] = base_backoff],
          health |-> [health_status EXCEPT ![n] = "healthy"], ret |-> "True"]
    ELSE IF resp = "error"
    THEN [backoff |-> backoff_delays,
          health |-> [health_status EXCEPT ![n] = "unhealthy"], ret |-> "False"]
    ELSE [backoff |-> backoff_delays, health |-> health_status, ret |-> "None"]

\* check_health that records a healthy answer without resetting the backoff.
check_health_keeps_backoff(n, resp) ==
    IF resp = "healthy"
    THEN [backoff |-> backoff_delays,
          health |-> [health_status EXCEPT ![n] = "healthy"], ret |-> "True"]
    ELSE IF resp = "unhealthy" \/ resp = "error"
    THEN [backoff |-> backoff_delays,
          health |-> [health_status EXCEPT ![n] = "unhealthy"], ret |-> "False"]
    ELSE [backoff |-> backoff_delays, health |-> health_status, ret |-> "None"]

\* resp: "healthy" is status 200 with {'status': 'healthy'}; "unhealthy" is
\* status 200 with another JSON object; "non200" is any other HTTP status;
\* "error" is whatever raises (timeout, refused connection, unparsable body).
check_health(n, resp) ==
    IF resp = "healthy"
    THEN [backoff |-> [backoff_delays EXCEPT ![n] = base_backoff],
          health |-> [health_status EXCEPT ![n] = "healthy"], ret |-> "True"]
    ELSE IF resp = "unhealthy" \/ resp = "error"
    THEN [backoff |-> backoff_delays,
          health |-> [health_status EXCEPT ![n] = "unhealthy"], ret |-> "False"]
    ELSE [backoff |-> backoff_delays, health |-> health_status, ret |-> "None"]

\* A truth test `is False` in place of `not`: None passes for a success.
Falsy_none_passes(value) == value = "False"

\* A truth test that takes every answer for a failure.
Falsy_always(value) == TRUE

\* Python's `not value` for the values the primitives return.
Falsy(value) == value \in {"False", "None"}

\* get_backoff_delay that forgets the recorded delay.
get_backoff_delay_floor(bk, n) == [bk EXCEPT ![n] = base_backoff]

get_backoff_delay(bk, n) ==
    IF bk[n] = NoDelay THEN [bk EXCEPT ![n] = base_backoff] ELSE bk

Min(a, b) == IF a <= b THEN a ELSE b

\* increase_backoff without the ceiling.
increase_backoff_uncapped(bk, n) ==
    LET current == IF bk[n] = NoDelay THEN base_backoff ELSE bk[n]
    IN [bk EXCEPT ![n] = current * 2]

\* increase_backoff that adds the base instead of doubling.
increase_backoff_additive(bk, n) ==
    LET current == IF bk[n] = NoDelay THEN base_backoff ELSE bk[n]
    IN [bk EXCEPT ![n] = Min(current + base_backoff, max_backoff)]

increase_backoff(bk, n) ==
    LET current == IF bk[n] = NoDelay THEN base_backoff ELSE bk[n]
    IN [bk EXCEPT ![n] = Min(current * 2, max_backoff)]

\* restart_service that doubles the backoff and counts whatever start_service
\* returned.
after_restart_any_outcome(n, sv, bk, success) ==
    [backoff |-> increase_backoff(bk, n),
     services |-> IF sv[n] # NoState
                  THEN [sv EXCEPT ![n].restart_count =
                           (IF @ = NoCount THEN 0 ELSE @) + 1]
                  ELSE sv]

\* restart_service that doubles the backoff and forgets the restart count.
after_restart_no_count(n, sv, bk, success) ==
    IF ~Falsy(success)
    THEN [backoff |-> increase_backoff(bk, n), services |-> sv]
    ELSE [backoff |-> bk, services |-> sv]

\* restart_service after start_service returned `success`.
after_restart(n, sv, bk, success) ==
    IF ~Falsy(success)
    THEN [backoff |-> increase_backoff(bk, n),
          services |-> IF sv[n] # NoState
                       THEN [sv EXCEPT ![n].restart_count =
                                (IF @ = NoCount THEN 0 ELSE @) + 1]
                       ELSE sv]
    ELSE [backoff |-> bk, services |-> sv]

\* A termination request was issued to a process.
Signalled(out) == out \in {"graceful", "forced", "timeout", "denied"}

\* ------------------------------------------------------------------ Init
Init ==
    /\ child = [p \in ChildPids |-> "free"]
    /\ listen = [q \in Ports |-> NoPid]
    /\ services = [n \in Names |-> NoState]
    /\ backoff_delays = [n \in Names |-> NoDelay]
    /\ health_status = [n \in Names |-> "none"]
    /\ op = "idle" /\ pc = "idle" /\ cur = "none" /\ i = 0
    /\ last = NoCall /\ prev = NoPrev /\ cycle = NoCycle

\* ------------------------------------------- steps of the operating system
OSvars == << child, listen >>
Program == << services, backoff_delays, health_status, op, pc, cur, i, last,
              prev, cycle >>

\* A process exits (crash, kill from outside); its port is released.
ProcessExits ==
    /\ pc # "ret"
    /\ \E p \in ChildPids \cup AllExtPids :
         /\ Exists(p)
         /\ child' = IF p \in ChildPids THEN ChildAfterExit(p) ELSE child
         /\ listen' = ListenAfterExit(p)
    /\ UNCHANGED Program

\* A spawned worker binds the port of its service (uvicorn.run in service.py).
ChildBinds ==
    /\ pc # "ret"
    /\ \E p \in ChildPids :
         /\ child[p] # "free"
         /\ \A q \in Ports : listen[q] # p
         /\ listen[Port(child[p])] = NoPid
         /\ listen' = [listen EXCEPT ![Port(child[p])] = p]
    /\ UNCHANGED << child, Program >>

\* A process started out-of-band binds a free port of the registry.
ExternalBinds ==
    /\ pc # "ret"
    /\ \E q \in Ports :
         /\ listen[q] = NoPid
         /\ FreeExtPids(q) # {}
         /\ listen' = [listen EXCEPT ![q] = NewExtPid(q)]
    /\ UNCHANGED << child, Program >>

\* ------------------------------------------------ steps of the supervisor
\* start_service(config) for n, run up to its await (or its return). Within
\* restart_service a start that returns without awaiting is followed at once
\* by the rest of restart_service.
StartStep(n, in_restart) ==
    \E target_exists \in BOOLEAN,
       popen_ok \in (IF FreePids(n) = {} THEN {FALSE} ELSE BOOLEAN) :
        LET r == start_service(n, target_exists, popen_ok)
            fin == IF in_restart /\ r.out # "spawned"
                   THEN after_restart(n, r.services, backoff_delays, r.ret)
                   ELSE [backoff |-> backoff_delays, services |-> r.services]
        IN /\ services' = fin.services
           /\ backoff_delays' = fin.backoff
           /\ child' = r.child
           /\ last' = [op |-> "start", name |-> n, out |-> r.out, ret |-> r.ret]
           /\ prev' = [name |-> n, ok |-> r.ret = "True",
                       twice |-> prev.name = n /\ prev.ok]
           /\ cur' = n
           /\ UNCHANGED << listen, health_status >>

\* stop_service(service_name) for n: it has no await and runs to its return
\* or to the psutil.TimeoutExpired that escapes it.
StopStep(n) ==
    \E how \in StopWays(n) :
        LET r == stop_service(n, how)
        IN /\ services' = r.services
           /\ child' = r.child
           /\ listen' = r.listen
           /\ last' = [op |-> "stop", name |-> n, out |-> r.out, ret |-> r.ret]
           /\ prev' = NoPrev
           /\ cur' = n
           /\ UNCHANGED << backoff_delays, health_status >>

\* The monitor cycle goes on to the next descriptor, or to its pacing sleep.
Advance ==
    IF i < NumServices THEN pc' = "examine" /\ i' = i + 1
                       ELSE pc' = "pace" /\ i' = i

\* restart_service returns to its caller.
RestartReturns ==
    IF op = "monitor" THEN Advance /\ op' = op
                      ELSE pc' = "ret" /\ i' = i /\ op' = op

Touch(c) == [c EXCEPT !.touched = TRUE]

\* restart_service is entered for n: the restart counter and the ownership
\* tag it finds are noted.
Entered(c, n) == [c EXCEPT !.count0 = services[n].restart_count,
                           !.tag0 = services[n].started_by]

\* restart_service has ended.
Ended(c) == [c EXCEPT !.count0 = NoCount, !.tag0 = "none"]

\* -- ServiceManager.start_service called on its own
Start(n) ==
    /\ pc = "idle"
    /\ StartStep(n, FALSE)
    /\ op' = "start"
    /\ pc' = IF last'.out = "spawned" THEN "settle" ELSE "ret"
    /\ UNCHANGED << i, cycle >>

\* -- await asyncio.sleep(2) of start_service ends and start_service returns True
Settle ==
    /\ pc = "settle"
    /\ LET fin == IF op \in {"restart", "monitor"}
                  THEN after_restart(cur, services, backoff_delays, "True")
                  ELSE [backoff |-> backoff_delays, services |-> services]
       IN /\ services' = fin.services
          /\ backoff_delays' = fin.backoff
    /\ CASE op = "start" -> pc' = "ret" /\ UNCHANGED << op, i >>
         [] op = "start_all" -> pc' = "spacing" /\ UNCHANGED << op, i >>
         [] OTHER -> RestartReturns
    /\ cycle' = IF op \in {"restart", "monitor"} THEN Ended(cycle) ELSE cycle
    /\ UNCHANGED << child, listen, health_status, cur, last, prev >>

\* -- ServiceManager.stop_service called on its own
Stop(n) ==
    /\ pc = "idle"
    /\ StopStep(n)
    /\ op' = "stop" /\ pc' = "ret"
    /\ UNCHANGED << i, cycle >>

\* -- HealthMonitor.check_health called on its own
CheckHealth(n) ==
    /\ pc = "idle"
    /\ \E resp \in HealthResponses(n) :
         LET r == check_health(n, resp)
         IN /\ backoff_delays' = r.backoff
            /\ health_status' = r.health
            /\ last' = [op |-> "check", name |-> n, out |-> resp, ret |-> r.ret]
    /\ op' = "check" /\ pc' = "ret" /\ cur' = n
    /\ UNCHANGED << child, listen, services, i, prev, cycle >>

\* -- HealthMonitor.restart_service called on its own: get_backoff_delay, then
\* await asyncio.sleep(delay)
Restart(n) ==
    /\ pc = "idle"
    /\ backoff_delays' = get_backoff_delay(backoff_delays, n)
    /\ op' = "restart" /\ pc' = "backoff" /\ cur' = n
    /\ cycle' = Entered(cycle, n)
    /\ UNCHANGED << child, listen, services, health_status, i, last, prev >>

\* restart_service that gives up when stop_service returned False.
RestartStop_needs_stop_success ==
    /\ pc = "backoff"
    /\ StopStep(cur)
    /\ pc' = IF last'.ret = "True" THEN "restart_start"
             ELSE IF op = "monitor" THEN "recover" ELSE "ret"
    /\ cycle' = IF last'.ret = "True" THEN cycle ELSE Ended(cycle)
    /\ UNCHANGED << op, i >>

\* restart_service whose failing stop_service ends the caller.
RestartStop_raise_escapes ==
    /\ pc = "backoff"
    /\ StopStep(cur)
    /\ pc' = IF last'.ret = "Raise" THEN "ret" ELSE "restart_start"
    /\ cycle' = cycle
    /\ UNCHANGED << op, i >>

\* -- restart_service: the backoff sleep ends, stop_service runs
RestartStop ==
    /\ pc = "backoff"
    /\ StopStep(cur)
    /\ IF last'.ret = "Raise"
       THEN pc' = IF op = "monitor" THEN "recover" ELSE "ret"
       ELSE pc' = "restart_start"
    /\ LET c == IF last'.ret = "Raise" THEN Ended(cycle) ELSE cycle
       IN cycle' = IF op = "monitor"
                      /\ (Signalled(last'.out) \/ services' # services)
                   THEN Touch(c) ELSE c
    /\ UNCHANGED << op, i >>

\* -- restart_service: start_service runs
RestartStart ==
    /\ pc = "restart_start"
    /\ StartStep(cur, TRUE)
    /\ IF last'.out = "spawned"
       THEN pc' = "settle" /\ UNCHANGED << op, i >>
       ELSE RestartReturns
    /\ LET c == IF last'.out = "spawned" THEN cycle ELSE Ended(cycle)
       IN cycle' = IF op = "monitor" /\ (services' # services \/ child' # child)
                   THEN Touch(c) ELSE c

\* -- start_all_services: the first start_service
StartAll ==
    /\ pc = "idle"
    /\ StartStep(Registry[1].name, FALSE)
    /\ op' = "start_all" /\ i' = 1
    /\ pc' = IF last'.out = "spawned" THEN "settle" ELSE "spacing"
    /\ UNCHANGED cycle

\* start_all_services that gives up after a start_service that failed.
Spacing_stops_after_failure ==
    /\ pc = "spacing"
    /\ IF i < NumServices /\ last.ret # "False"
       THEN /\ StartStep(Registry[i + 1].name, FALSE)
            /\ i' = i + 1
            /\ pc' = IF last'.out = "spawned" THEN "settle" ELSE "spacing"
       ELSE /\ pc' = "ret"
            /\ UNCHANGED << child, listen, services, backoff_delays,
                            health_status, cur, i, last, prev >>
    /\ UNCHANGED << op, cycle >>

\* -- start_all_services: await asyncio.sleep(3) ends; the next start_service,
\* or the return
Spacing ==
    /\ pc = "spacing"
    /\ IF i < NumServices
       THEN /\ StartStep(Registry[i + 1].name, FALSE)
            /\ i' = i + 1
            /\ pc' = IF last'.out = "spawned" THEN "settle" ELSE "spacing"
       ELSE /\ pc' = "ret"
            /\ UNCHANGED << child, listen, services, backoff_delays,
                            health_status, cur, i, last, prev >>
    /\ UNCHANGED << op, cycle >>

\* stop_all_services at the descriptor k of reversed(STARTUP_ORDER)
StopAllStep(k) ==
    /\ StopStep(Registry[k].name)
    /\ op' = "stop_all"
    /\ IF last'.ret = "Raise" \/ k = 1
       THEN pc' = "ret" /\ i' = k
       ELSE pc' = "stop_all" /\ i' = k - 1
    /\ UNCHANGED cycle

\* -- stop_all_services: the first stop_service
StopAll == pc = "idle" /\ StopAllStep(NumServices)

\* -- stop_all_services: the next stop_service
StopAllNext == pc = "stop_all" /\ StopAllStep(i)

\* -- background_monitor is started: await asyncio.sleep(10)
Monitor ==
    /\ pc = "idle"
    /\ op' = "monitor" /\ pc' = "warmup"
    /\ UNCHANGED << child, listen, services, backoff_delays, health_status,
                    cur, i, last, prev, cycle >>

\* -- background_monitor: a sleep between cycles ends and a cycle begins
Pace ==
    /\ pc \in {"warmup", "pace", "recover"}
    /\ pc' = "examine" /\ i' = 1 /\ cycle' = NoCycle /\ last' = NoCall
    /\ UNCHANGED << child, listen, services, backoff_delays, health_status,
                    op, cur, prev >>

\* -- background_monitor: one descriptor of the cycle: is_service_running,
\* then restart_service (up to its backoff sleep) or check_health
Examine ==
    /\ pc = "examine"
    /\ LET n == Registry[i].name
           alive == services[n] # NoState /\ Exists(services[n].pid)
           is_running == is_service_running(n)
       IN /\ cur' = n
          /\ IF ~is_running
             THEN /\ backoff_delays' = get_backoff_delay(backoff_delays, n)
                  /\ pc' = "backoff" /\ i' = i
                  /\ cycle' = [cycle EXCEPT
                                  !.dead = IF alive THEN @ ELSE @ \cup {n},
                                  !.killed = IF services[n] # NoState /\ ~alive
                                             THEN @ \cup {n} ELSE @,
                                  !.restarted = @ \cup {n},
                                  !.count0 = services[n].restart_count,
                                  !.tag0 = services[n].started_by]
                  /\ UNCHANGED << health_status, last >>
             ELSE \E resp \in HealthResponses(n) :
                    LET r == check_health(n, resp)
                        found == [cycle EXCEPT
                                    !.dead = IF alive THEN @ ELSE @ \cup {n},
                                    !.unhealthy = IF r.ret = "True" THEN @
                                                  ELSE @ \cup {n}]
                    IN /\ health_status' = r.health
                       /\ last' = [op |-> "check", name |-> n, out |-> resp,
                                   ret |-> r.ret]
                       /\ IF Falsy(r.ret)
                          THEN /\ backoff_delays' = get_backoff_delay(r.backoff, n)
                               /\ pc' = "backoff" /\ i' = i
                               /\ cycle' = [found EXCEPT
                                               !.restarted = @ \cup {n},
                                               !.count0 = services[n].restart_count,
                                               !.tag0 = services[n].started_by]
                          ELSE /\ backoff_delays' = r.backoff
                               /\ Advance
                               /\ cycle' = found
    /\ UNCHANGED << child, listen, services, op, prev >>

\* -- monitor_task.cancel() while background_monitor sleeps between cycles
Cancel ==
    /\ op = "monitor"
    /\ pc \in {"warmup", "pace", "recover"}
    /\ pc' = "ret"
    /\ UNCHANGED << child, listen, services, backoff_delays, health_status,
                    op, cur, i, last, prev, cycle >>

\* -- main(): start_all_services has returned; create_task(background_monitor)
\* and `await monitor_task`
MainMonitor ==
    /\ op = "start_all" /\ pc = "ret"
    /\ op' = "monitor" /\ pc' = "warmup"
    /\ UNCHANGED << child, listen, services, backoff_delays, health_status,
                    cur, i, last, prev, cycle >>

\* -- main(): KeyboardInterrupt is raised in main's own frame, inside its try
\* and before the monitor task has run (an interpreter whose SIGINT handler
\* raises in the running frame); the handler cancels the task and runs
\* stop_all_services, which does not suspend before its first stop_service
InterruptCaught ==
    /\ op = "monitor" /\ pc = "warmup"
    /\ StopAllStep(NumServices)

\* -- main(): the interrupt or a cancellation reaches main while it is
\* suspended in an await: asyncio raises CancelledError there, which neither
\* `except KeyboardInterrupt` nor `except Exception` catches, and main exits
InterruptCancels ==
    /\ op \in {"start_all", "monitor"}
    /\ pc \in {"spacing", "settle", "warmup", "pace", "recover", "backoff"}
    /\ op' = "exited" /\ pc' = "done"
    /\ UNCHANGED << child, listen, services, backoff_delays, health_status,
                    cur, i, last, prev, cycle >>

\* -- main(): the handler's stop_all_services returned or raised; main exits
MainExit ==
    /\ op = "stop_all" /\ pc = "ret"
    /\ op' = "exited" /\ pc' = "done"
    /\ UNCHANGED << child, listen, services, backoff_delays, health_status,
                    cur, i, last, prev, cycle >>

\* -- the operation returns to its caller
Return ==
    /\ pc = "ret"
    /\ op' = "idle" /\ pc' = "idle" /\ cur' = "none" /\ i' = 0
    /\ last' = NoCall /\ cycle' = NoCycle
    /\ UNCHANGED << child, listen, services, backoff_delays, health_status, prev >>

\* ----------------------------------------------------- specifications
OS == ProcessExits \/ ChildBinds \/ ExternalBinds

\* The ServiceManager and the lifecycle sequencer called in any order.
Next ==
    \/ OS
    \/ \E n \in Names : Start(n)
    \/ \E n \in Names : Stop(n)
    \/ Settle
    \/ StartAll
    \/ Spacing
    \/ StopAll
    \/ StopAllNext
    \/ Return

Spec == Init /\ [][Next]_vars

\* The HealthMonitor called in any order.
NextHealth ==
    \/ OS
    \/ \E n \in Names : CheckHealth(n)
    \/ \E n \in Names : Restart(n)
    \/ RestartStop
    \/ RestartStart
    \/ Settle
    \/ Return

SpecHealth == Init /\ [][NextHealth]_vars

\* main(): start_all_services, then background_monitor until it is cancelled;
\* the workers exit and bind their ports, nothing else listens on the ports.
NextMonitor ==
    \/ ProcessExits
    \/ ChildBinds
    \/ StartAll
    \/ Spacing
    \/ Settle
    \/ Monitor
    \/ Pace
    \/ Examine
    \/ RestartStop
    \/ RestartStart
    \/ Cancel
    \/ Return

SpecMonitor == Init /\ [][NextMonitor]_vars

\* main() from its first line to its exit: start_all_services once, the
\* monitor loop, and the interrupt.
NextMain ==
    \/ ProcessExits
    \/ ChildBinds
    \/ StartAll
    \/ Spacing
    \/ Settle
    \/ MainMonitor
    \/ Pace
    \/ Examine
    \/ RestartStop
    \/ RestartStart
    \/ InterruptCaught
    \/ InterruptCancels
    \/ StopAllNext
    \/ MainExit

SpecMain == Init /\ [][NextMain]_vars

\* background_monitor on its own, from the state after construction: every
\* service is found not running and restarted by the loop.
NextLoop ==
    \/ ProcessExits
    \/ ChildBinds
    \/ Monitor
    \/ Pace
    \/ Examine
    \/ RestartStop
    \/ RestartStart
    \/ Settle
    \/ Cancel
    \/ Return

\* The event loop resumes the task when a sleep of it ends and every call of
\* it returns or raises; whether and when the task is cancelled is left open.
SpecLoop ==
    /\ Init /\ [][NextLoop]_vars
    /\ WF_vars(Pace) /\ WF_vars(Examine) /\ WF_vars(RestartStop)
    /\ WF_vars(RestartStart) /\ WF_vars(Settle)

\* ------------------------------------------------------------ the claims
\* The step runs the body of start_service for n.
StartRan(n) ==
    /\ last'.op = "start" /\ last'.name = n /\ cur' = n
    /\ \/ pc = "idle" /\ pc' # "idle"
       \/ pc = "spacing" /\ i' = i + 1
       \/ pc = "restart_start" /\ pc' # pc

\* The step runs stop_service for n.
StopRan(n) ==
    /\ last'.op = "stop" /\ last'.name = n /\ cur' = n
    /\ \/ pc = "idle" /\ pc' # "idle"
       \/ pc = "stop_all" /\ (pc' # pc \/ i' # i)
       \/ pc = "warmup" /\ pc' = "stop_all"
       \/ pc = "backoff" /\ pc' # pc

\* The live processes the supervisor spawned for n.
ChildrenOf(n) == { p \in ChildPids : child[p] = n }

\* C1: a start_service call that finds the port of its descriptor bound
\* spawns no process, returns True, and leaves for that name a runtime state
\* holding the PID of the port's holder with started_by 'external'.
C1_AdoptsBoundPort ==
    [][\A n \in Names :
         (StartRan(n) /\ listen[Port(n)] # NoPid) =>
            /\ child' = child
            /\ last'.ret = "True"
            /\ services'[n].pid = listen[Port(n)]
            /\ services'[n].started_by = "external"]_vars

\* A start_service call has just adopted an out-of-band listener.
C1_Witness ==
    /\ pc = "ret" /\ last.op = "start" /\ last.out = "adopted"
    /\ services[cur].started_by = "external"
    /\ services[cur].pid = listen[Port(cur)]
    /\ services[cur].pid \in AllExtPids

\* C2: at most one live process spawned by the supervisor exists per service
\* name, whatever the sequence of operations.
C2_NoDuplicateLaunch ==
    \A n \in Names : Cardinality(ChildrenOf(n)) <= 1

\* C3 as stated: whenever start_service is called for a name right after a
\* start_service call for the same name, both calls return True and the name
\* has a runtime state.
C3_StartTwiceAlwaysSucceeds ==
    [][\A n \in Names :
         (StartRan(n) /\ prev.name = n) =>
            /\ prev.ok
            /\ last'.ret = "True"
            /\ services'[n] # NoState]_vars

\* C3 amended: when the first of two successive start_service calls for a
\* name returned True, the name has a runtime state after the second; and
\* when the process that state names is still running at the second call,
\* the second call returns True and spawns nothing.
C3_StartTwiceIdempotent ==
    [][\A n \in Names :
         (StartRan(n) /\ prev.name = n /\ prev.ok) =>
            /\ services[n] # NoState
            /\ services'[n] # NoState
            /\ Exists(services[n].pid) =>
                  (last'.ret = "True" /\ child' = child)]_vars

\* A second successive start_service found the spawned worker running.
C3_Witness ==
    /\ pc = "ret" /\ last.op = "start" /\ last.out = "already"
    /\ prev.name = cur /\ prev.twice
    /\ services[cur].started_by = "guardian"
    /\ Exists(services[cur].pid)

\* C6: stop_service on a tracked name whose PID no longer exists removes
\* the runtime state and returns True.
C6_StopOfExitedSucceeds ==
    [][\A n \in Names :
         (StopRan(n) /\ services[n] # NoState /\ ~Exists(services[n].pid)) =>
            (services'[n] = NoState /\ last'.ret = "True")]_vars

\* C7: stop_service on a name with no runtime state returns False, requests
\* no termination and changes neither the runtime states nor any process.
C7_StopUntrackedNoEffect ==
    [][\A n \in Names :
         (StopRan(n) /\ services[n] = NoState) =>
            /\ last'.ret = "False"
            /\ ~Signalled(last'.out)
            /\ services' = services
            /\ child' = child /\ listen' = listen]_vars

\* stop_service has just refused an untracked name while a process listens
\* on the port of that name.
C7_Witness ==
    /\ pc = "ret" /\ last.op = "stop" /\ last.out = "untracked"
    /\ services[cur] = NoState
    /\ listen[Port(cur)] # NoPid

\* C8: is_service_running is true only for a tracked name whose PID exists,
\* get_service_status reports running only for such a name, and a stale
\* runtime state is reported as not running.
C8_RunningOnlyIfAlive ==
    \A n \in Names :
        /\ is_service_running(n) =>
              (services[n] # NoState /\ Exists(services[n].pid))
        /\ n \in DOMAIN get_service_status =>
              /\ get_service_status[n].running => Exists(get_service_status[n].pid)
              /\ ~Exists(services[n].pid) => get_service_status[n].running = FALSE

\* A runtime state is stale: its process has exited; another is running.
C8_Witness ==
    \E n, m \in Names :
        /\ services[n] # NoState /\ ~Exists(services[n].pid)
        /\ get_service_status[n].running = FALSE
        /\ m \in DOMAIN get_service_status
        /\ get_service_status[m].running = TRUE

\* The step runs check_health for n.
CheckRan(n) ==
    /\ last'.op = "check" /\ last'.name = n /\ cur' = n
    /\ \/ pc = "idle" /\ pc' # "idle"
       \/ pc = "examine" /\ (pc' # pc \/ i' # i)

\* The step enters restart_service for n: the delay is read and the wait begins.
RestartEntered(n) ==
    pc \in {"idle", "examine"} /\ pc' = "backoff" /\ cur' = n

\* The step ends restart_service for n with start_service having returned True.
RestartSucceeded(n) ==
    /\ cur = n /\ op \in {"restart", "monitor"}
    /\ \/ pc = "restart_start" /\ pc' \notin {"restart_start", "settle"}
          /\ last'.ret = "True"
       \/ pc = "settle" /\ pc' # "settle"

\* The step ends restart_service for n: it returns, or stop_service raises.
RestartEnded(n) ==
    /\ cur = n /\ op \in {"restart", "monitor"}
    /\ \/ pc = "backoff" /\ pc' \in {"ret", "recover"}
       \/ pc = "restart_start" /\ pc' \notin {"restart_start", "settle"}
       \/ pc = "settle" /\ pc' # "settle"

\* The delay a restart_service for n entered now would wait.
NextDelay(bk, n) == get_backoff_delay(bk, n)[n]

\* C4 as stated: the first restart of a service waits 5, and whenever a
\* restart of it ends, its next restart waits the double of the delay this one
\* waited, capped at 300.
C4_EveryRestartDoubles ==
    [][\A n \in Names :
         /\ (RestartEntered(n) /\ backoff_delays[n] = NoDelay) =>
               backoff_delays'[n] = base_backoff
         /\ RestartEnded(n) =>
               NextDelay(backoff_delays', n) =
                  Min(2 * backoff_delays[n], max_backoff)]_vars

\* C4 amended: a restart waits the recorded delay (5 when none is recorded);
\* a restart whose start_service returned True doubles it, capped at 300; a
\* restart whose start_service failed or whose stop_service raised leaves it;
\* and besides a healthy check_health nothing else changes it.
C4_BackoffSequence ==
    [][\A n \in Names :
         /\ RestartEntered(n) =>
               backoff_delays'[n] = NextDelay(backoff_delays, n)
         /\ RestartSucceeded(n) =>
               backoff_delays'[n] = Min(2 * backoff_delays[n], max_backoff)
         /\ (RestartEnded(n) /\ ~RestartSucceeded(n)) =>
               backoff_delays'[n] = backoff_delays[n]
         /\ backoff_delays'[n] # backoff_delays[n] =>
               \/ RestartEntered(n)
               \/ RestartSucceeded(n)
               \/ CheckRan(n) /\ last'.ret = "True"]_vars

\* A restart waits the ceiling: its six predecessors doubled the delay from 5.
C4_Witness ==
    /\ op = "restart" /\ pc = "backoff"
    /\ backoff_delays[cur] = max_backoff

\* C5: a check_health that returns True sets the backoff delay of its service
\* to the floor 5, which the next restart of that service then waits, and
\* leaves the backoff delay of every other service as it was.
C5_HealthyResetsBackoff ==
    [][\A n \in Names :
         (CheckRan(n) /\ last'.ret = "True") =>
            /\ backoff_delays'[n] = base_backoff
            /\ NextDelay(backoff_delays', n) = base_backoff
            /\ \A m \in Names \ {n} :
                  backoff_delays'[m] = backoff_delays[m]]_vars

\* A healthy check has just reset one service while another keeps a raised
\* delay.
C5_Witness ==
    /\ pc = "ret" /\ last.op = "check" /\ last.ret = "True"
    /\ backoff_delays[cur] = base_backoff
    /\ \E m \in Names \ {cur} : backoff_delays[m] > base_backoff

\* The step is one the monitor cycle takes on the descriptor at position i.
CycleStep == op = "monitor" /\ pc = "examine" /\ (pc' # pc \/ i' # i)

\* The cycle finds n tracked with a process that no longer exists.
KilledFound(n) ==
    /\ CycleStep /\ Registry[i].name = n
    /\ services[n] # NoState /\ ~Exists(services[n].pid)

\* Within one cycle restart_service is entered at most once for a service,
\* and a service found killed is restarted in the step that finds it.
RestartedOnceInCycle(n) ==
    /\ KilledFound(n) => RestartEntered(n)
    /\ (op = "monitor" /\ RestartEntered(n)) =>
          /\ n \notin cycle.restarted
          /\ cycle'.restarted = cycle.restarted \cup {n}
    /\ (op = "monitor" /\ pc' = "examine") =>
          \A k \in i'..NumServices : Registry[k].name \notin cycle'.restarted

CleanCycle(c) == c.dead = {} /\ c.unhealthy = {}

\* C10: a step of a monitor cycle that has found every service running and
\* healthy enters no restart, terminates and spawns no process, and leaves
\* the runtime-state map as it was.
C10_HealthyCycleTouchesNothing ==
    [][(CycleStep /\ CleanCycle(cycle')) =>
          /\ pc' # "backoff"
          /\ cycle'.restarted = {} /\ ~cycle'.touched
          /\ services' = services
          /\ child' = child /\ listen' = listen]_vars

\* A whole cycle went by with every service tracked, running and healthy.
C10_Witness ==
    /\ op = "monitor" /\ pc = "pace" /\ CleanCycle(cycle)
    /\ cycle.restarted = {}
    /\ \A n \in Names :
          /\ services[n] # NoState /\ Exists(services[n].pid)
          /\ health_status[n] = "healthy"

\* The step is a check_health for n that returns True.
HealthyCheck(n) == CheckRan(n) /\ last'.ret = "True"

LoopSleeps == {"warmup", "pace", "recover"}

\* A step in which an exception is raised inside a cycle goes to the recovery
\* sleep, and a step that ends the loop is a cancellation during a sleep.
FaultsContained ==
    /\ (op = "monitor" /\ last'.ret = "Raise" /\ last.ret # "Raise") =>
          (pc' = "recover" /\ op' = "monitor")
    /\ (op = "monitor" /\ pc # "ret" /\ (pc' = "ret" \/ op' # "monitor")) =>
          /\ pc \in LoopSleeps /\ pc' = "ret" /\ last' = last
          /\ services' = services /\ child' = child

\* C12: an exception raised inside a cycle of the monitor loop takes the loop
\* to its recovery sleep, the loop ends only by a cancellation during one of
\* its sleeps, and after a contained exception a new cycle begins unless the
\* loop is cancelled first.
C12_LoopSurvivesFaults ==
    /\ [][FaultsContained]_vars
    /\ (op = "monitor" /\ pc = "recover") ~>
          ((op = "monitor" /\ pc = "examine" /\ i = 1) \/ pc = "ret")

\* stop_service raised inside a restart of the loop and the loop is in its
\* recovery sleep.
C12_Witness ==
    /\ op = "monitor" /\ pc = "recover"
    /\ last.op = "stop" /\ last.ret = "Raise"

\* C13: a cycle of the monitor loop begins only after the cycle before it has
\* examined every descriptor of the registry, whatever the restarts of that
\* cycle returned or raised.
C13_EveryDescriptorExamined ==
    [][(op = "monitor" /\ pc # "examine" /\ pc' = "examine" /\ i' = 1) =>
          (pc = "warmup" \/ i = NumServices)]_vars

\* C14: main exits only after its stop_all_services has called stop_service
\* for every registry service, and at its exit no process the supervisor
\* launched is tracked and running.
C14_ExitOnlyAfterStopAll ==
    [][(op' = "exited" /\ op # "exited") =>
          /\ op = "stop_all" /\ i = 1 /\ last.ret # "Raise"
          /\ \A n \in Names :
                ~(/\ services'[n] # NoState
                  /\ services'[n].started_by = "guardian"
                  /\ Exists(services'[n].pid))]_vars

\* C15: check_health returns True exactly for the answer with status 200 and
\* a payload whose status is 'healthy'; after any other answer its result is
\* falsy and the monitor loop goes on to restart the service.
C15_HealthyIffStatusHealthy ==
    [][\A n \in Names :
         CheckRan(n) =>
            /\ last'.ret = "True" <=> last'.out = "healthy"
            /\ last'.out # "healthy" =>
                  /\ Falsy(last'.ret)
                  /\ op' = "monitor" => RestartEntered(n)]_vars

\* The loop restarts a service whose endpoint answered with a status other
\* than 200.
C15_Witness ==
    /\ op = "monitor" /\ pc = "backoff"
    /\ last.op = "check" /\ last.name = cur /\ last.out = "non200"
    /\ Falsy(last.ret)

\* C16: every check_health whose answer is not the healthy one returns the
\* boolean False.
C16_FailureReturnsFalse ==
    [][\A n \in Names :
         (CheckRan(n) /\ last'.out # "healthy") => last'.ret = "False"]_vars

\* The restart counter a restart_service builds on: 0 when it found no state
\* or a state without a counter.
CountBefore == IF cycle.count0 = NoCount THEN 0 ELSE cycle.count0

\* C17: a restart whose start_service succeeds leaves the restart counter one
\* above the value it had when the restart was entered.
C17_RestartCounts ==
    [][\A n \in Names :
         (RestartSucceeded(n) /\ services'[n] # NoState) =>
            services'[n].restart_count = CountBefore + 1]_vars

\* The position in reversed(STARTUP_ORDER) at which stop_all_services is.
StopAllAt == IF pc = "idle" THEN NumServices ELSE i

\* C18: stop_all_services calls stop_service for the descriptors in reverse
\* registry order, and after the stop_service of any descriptor but the first
\* of the registry, whatever its outcome, it goes on to the one before it.
C18_StopAllReachesEveryService ==
    [][(op' = "stop_all" /\ pc \in {"idle", "stop_all"}
          /\ (pc' # pc \/ i' # i)) =>
          /\ StopRan(Registry[StopAllAt].name)
          /\ IF StopAllAt > 1
             THEN pc' = "stop_all" /\ i' = StopAllAt - 1
             ELSE pc' = "ret"]_vars

\* C19: start_all_services calls start_service for the first descriptor,
\* then, after each spacing sleep and whatever the start before returned, for
\* the next one, and returns only after the last; no step of it starts a
\* descriptor twice or skips one.
C19_StartAllAttemptsEveryService ==
    [][/\ (pc = "idle" /\ op' = "start_all") =>
             (StartRan(Registry[1].name) /\ i' = 1)
       /\ (op = "start_all" /\ pc = "spacing" /\ i < NumServices
             /\ (pc' # pc \/ i' # i)) =>
             (StartRan(Registry[i + 1].name) /\ i' = i + 1)
       /\ (op = "start_all" /\ op' = "start_all" /\ i' # i) =>
             (pc = "spacing" /\ i' = i + 1)
       /\ (op = "start_all" /\ pc # "ret" /\ pc' = "ret") =>
             /\ pc = "spacing" /\ i = NumServices
             /\ services' = services /\ child' = child]_vars

\* start_all_services returns after starting the last descriptor although
\* the start of the first one failed.
C19_Witness ==
    /\ op = "start_all" /\ pc = "ret" /\ i = NumServices
    /\ last.op = "start" /\ last.name = Registry[NumServices].name
    /\ last.ret = "True"
    /\ services[Registry[1].name] = NoState

\* C20: a start_service that returns False leaves the runtime-state map, the
\* processes and the listeners as they were.
C20_FailedStartLeavesNoState ==
    [][\A n \in Names :
         (StartRan(n) /\ last'.ret = "False") =>
            /\ services' = services
            /\ child' = child /\ listen' = listen]_vars

\* A start_service has failed at the spawn for a name that keeps its stale
\* runtime state, while another service is tracked.
C20_Witness ==
    /\ op = "start" /\ pc = "ret"
    /\ last.op = "start" /\ last.out = "spawn_failed" /\ last.ret = "False"
    /\ services[cur] # NoState /\ ~Exists(services[cur].pid)
    /\ \E m \in Names \ {cur} : services[m] # NoState

\* The service n is running: it has a runtime state whose process exists.
Running(n) == services[n] # NoState /\ Exists(services[n].pid)

\* C21: the step a monitor cycle takes on a descriptor enters restart_service
\* without a check_health when the service is not running, and otherwise
\* runs check_health and enters restart_service exactly when the check did
\* not return True; restart_service is entered at most once for a service in
\* one cycle.
C21_CycleStepPerDescriptor ==
    [][\A n \in Names :
         /\ (CycleStep /\ Registry[i].name = n) =>
               IF ~Running(n)
               THEN /\ RestartEntered(n)
                    /\ last' = last /\ health_status' = health_status
               ELSE /\ CheckRan(n)
                    /\ RestartEntered(n) <=> last'.ret # "True"
         /\ RestartedOnceInCycle(n)]_vars

\* A cycle has restarted a service it found not running and has checked
\* another one, which answered healthy and was not restarted.
C21_Witness ==
    /\ op = "monitor" /\ pc = "pace"
    /\ cycle.dead # {} /\ cycle.restarted = cycle.dead
    /\ last.op = "check" /\ last.ret = "True"
    /\ last.name \notin cycle.restarted

\* The step is one of the restart_service in progress for n.
InRestart(n) == cur = n /\ op \in {"restart", "monitor"}

\* C22: restart_service first waits, touching nothing; when the wait ends it
\* runs stop_service; whatever stop_service returned it then runs
\* start_service; and it ends with the call of start_service, whose outcome
\* is its own.
C22_RestartOrder ==
    [][\A n \in Names :
         /\ RestartEntered(n) =>
               /\ last' = last \/ CheckRan(n)
               /\ services' = services
               /\ child' = child /\ listen' = listen
         /\ (InRestart(n) /\ pc = "backoff" /\ pc' # pc) =>
               /\ StopRan(n)
               /\ last'.ret \in {"True", "False"} => pc' = "restart_start"
         /\ (InRestart(n) /\ pc = "restart_start" /\ pc' # pc) => StartRan(n)
         /\ (RestartEnded(n) /\ last'.ret # "Raise") =>
               /\ last'.op = "start" /\ last'.name = n
               /\ RestartSucceeded(n) <=> last'.ret = "True"]_vars

\* A restart of an untracked service: stop_service returned its not-tracked
\* failure and start_service has spawned the worker.
C22_Witness ==
    /\ op = "restart" /\ pc = "settle"
    /\ cycle.tag0 = "none"
    /\ last.op = "start" /\ last.name = cur /\ last.out = "spawned"

\* C23: a restart_service whose start_service fails ends with the backoff
\* delay it waited and with no restart counter above the one it found; no
\* step of a restart but its successful end changes the backoff delay; and a
\* recorded backoff delay grows only by the doubling (capped at 300) of a
\* restart whose start_service succeeded.
C23_FailedRestartKeepsBackoff ==
    [][\A n \in Names :
         /\ (RestartEnded(n) /\ ~RestartSucceeded(n)) =>
               /\ backoff_delays'[n] = backoff_delays[n]
               /\ \/ services'[n] = NoState
                  \/ services'[n].restart_count = cycle.count0
         /\ (InRestart(n) /\ pc \in {"backoff", "restart_start", "settle"}
               /\ ~RestartSucceeded(n)) =>
               backoff_delays'[n] = backoff_delays[n]
         /\ (backoff_delays[n] # NoDelay
               /\ backoff_delays'[n] > backoff_delays[n]) =>
               /\ RestartSucceeded(n)
               /\ backoff_delays'[n] =
                     Min(2 * backoff_delays[n], max_backoff)]_vars

\* A restart has failed at its start_service for a service whose delay was
\* raised and whose counter was 1 before: both are as they were.
C23_Witness ==
    /\ op = "restart" /\ pc = "ret"
    /\ last.op = "start" /\ last.name = cur /\ last.ret = "False"
    /\ backoff_delays[cur] > base_backoff
    /\ services[cur] # NoState /\ services[cur].restart_count = 1

\* The delays of the doubling schedule from the floor to the ceiling.
BackoffSteps == {5, 10, 20, 40, 80, 160, 300}

\* C24: every recorded backoff delay lies between the floor 5 and the
\* ceiling 300 and is one of 5, 10, 20, 40, 80, 160, 300.
C24_BackoffWithinSchedule ==
    \A n \in Names :
        backoff_delays[n] # NoDelay =>
           /\ base_backoff <= backoff_delays[n]
           /\ backoff_delays[n] <= max_backoff
           /\ backoff_delays[n] \in BackoffSteps

\* One service has reached the ceiling while another is on the last delay
\* below it.
C24_Witness ==
    \E n, m \in Names :
        backoff_delays[n] = max_backoff /\ backoff_delays[m] = 160

\* C25: a runtime state tagged 'external' names a foreign process, never a
\* process the supervisor spawned.
C25_ExternalTagOnlyForeign ==
    \A n \in Names :
        (services[n] # NoState /\ services[n].started_by = "external") =>
           services[n].pid \notin ChildPids

\* C26: after every check_health the health record of the service carries
\* the outcome of that call: healthy when it returned True, unhealthy
\* otherwise.
C26_RecordFollowsCheck ==
    [][\A n \in Names :
         CheckRan(n) =>
            health_status'[n] =
               IF last'.ret = "True" THEN "healthy" ELSE "unhealthy"]_vars

\* C27: a runtime state is removed only by a step of stop_service, called
\* on its own, by stop_all_services or as the stop step of a restart; no
\* step of start, check_health or the monitor cycle deletes an entry.
C27_OnlyStopRemoves ==
    [][\A n \in Names :
         (services[n] # NoState /\ services'[n] = NoState) => StopRan(n)]_vars

\* Inside a restart that found a runtime state, the stop step has removed
\* the entry and the start step has not run yet.
C27_Witness ==
    /\ op \in {"restart", "monitor"}
    /\ pc = "restart_start"
    /\ cycle.tag0 \in {"guardian", "external"}
    /\ last.op = "stop"
    /\ last.name = cur
    /\ last.ret = "True"
    /\ services[cur] = NoState

\* The program is suspended in an await asyncio.sleep of start_service,
\* start_all_services, restart_service or background_monitor.
Suspended == pc \in {"settle", "spacing", "backoff", "warmup", "pace", "recover"}

\* C28: at every suspension point every live process the supervisor spawned
\* is the PID recorded in the runtime state of its service, so that a
\* stop_all_services issued there reaches it.
C28_NoHandleLeak ==
    Suspended =>
       \A p \in ChildPids :
           child[p] # "free" => services[child[p]].pid = p

\* What C29 asks of one step: stop_service signals the tracked live PID
\* whatever its tag, a stop that succeeds on an adopted state removes the
\* state and the process, and the start step of a restart that stopped an
\* adopted process, finds its port free and succeeds records a process the
\* supervisor launched.
StopIgnoresTag ==
    \A n \in Names :
        /\ (StopRan(n) /\ Running(n)) => Signalled(last'.out)
        /\ (StopRan(n) /\ Running(n) /\ services[n].started_by = "external"
               /\ last'.ret = "True") =>
              /\ services'[n] = NoState
              /\ \A q \in Ports : listen'[q] # services[n].pid
        /\ (StartRan(n) /\ pc = "restart_start" /\ cycle.tag0 = "external"
               /\ services[n] = NoState /\ listen[Port(n)] = NoPid
               /\ last'.ret = "True") =>
              /\ services'[n].started_by = "guardian"
              /\ services'[n].pid \in ChildPids

\* C29: stop and restart act on the tracked PID regardless of its ownership
\* tag, and a successful start on the freed port leaves a self-launched
\* state.
C29_StopIgnoresTag == [][StopIgnoresTag]_vars

\* A restart that met an adopted state has stopped the foreign process and
\* spawned its own worker.
C29_Witness ==
    /\ op = "restart"
    /\ pc = "settle"
    /\ cycle.tag0 = "external"
    /\ last.op = "start"
    /\ last.out = "spawned"
    /\ services[cur].started_by = "guardian"

====
